---- MODULE Spec2Model ----
(***************************************************************************)
(* The YM audio stream adapter of bilizir-demo (src/main.go, YMPlayer):    *)
(* NewYMPlayer, Read, SetVolume, GetVolume, Seek and Close, called by two  *)
(* threads (the audio sink and a control thread) and serialized by          *)
(* y.mutex.  The adapter has one of two clients: a direct user of the type  *)
(* (any call, from either thread), or the demo's Game (Init/loadMusic,      *)
(* Update's volume keys and Cleanup on the main goroutine, Read on the      *)
(* audio goroutine).  The chip-music decoder (package stsound) is an        *)
(* external library; it is modelled by its calling contract only.           *)
(* A second specification, SpecCube, runs the pure steps of the cube        *)
(* renderer on their inputs: the depth sort and the outline colour of       *)
(* Cube3D.Draw, and project3D.                                              *)
(***************************************************************************)
EXTENDS Integers, Sequences, FiniteSets, TLC

VARIABLES
    phase,          \* "Uninitialized" | "Loaded" | "LoadFailed": outcome of NewYMPlayer
    player,         \* y.player: "dec" (the decoder handle) or "nil"
    ySampleRate,    \* y.sampleRate
    position,       \* y.position
    totalSamples,   \* y.totalSamples
    loop,           \* y.loop
    volume,         \* y.volume, in hundredths (50 is 0.5)
    mutex,          \* y.mutex: "free" or the thread holding it
    decLoop,        \* decoder: loop mode set by SetLoopMode
    decOver,        \* decoder: a non-looping decoder has reported data exhausted
    destroyCount,   \* decoder: number of Destroy calls received
    computeOnNil,   \* decoder: a Compute call was made through a nil handle
    pc,             \* per thread: "idle" | "read" | "panic"
    rd,             \* per thread: the locals of the Read call in progress
    ret,            \* what the most recent call returned; empty while a Read executes
    panicked,       \* the process has died of an unrecovered panic
    client,         \* "none" | "api" | "game": who created the adapter
    gYmPlayer,      \* g.ymPlayer: "nil" or "y"
    gAudioPlayer,   \* g.audioPlayer: "nil" | "playing" | "closed"
    initialized,    \* g.initialized
    gpc,            \* main goroutine of the Game: "new" | "running" | "setvol" | "cleanup" | "exited"
    vol,            \* Update's local vol, between GetVolume and SetVolume
    cnt,            \* g.cnt, the copper bar counter every Update advances
    part,           \* the step of Cube3D.Draw a behaviour runs: "none" | "sort" | "edge" | "project"
    cpc,            \* that step: "off" | "ready" | "done"
    rotated,        \* Draw: rotated[vi][2], the rotated z of each vertex
    depths,         \* Draw: the depths slice
    faceColor,      \* Draw: the R, G, B of faceColor
    edgeColor,      \* Draw: the R, G, B of edgeColor
    pin,            \* project3D: the arguments x, y, z
    pout            \* project3D: what it returned, and whether it divided by zero

vars == << phase, player, ySampleRate, position, totalSamples, loop, volume, mutex,
           decLoop, decOver, destroyCount, computeOnNil, pc, rd, ret, panicked,
           client, gYmPlayer, gAudioPlayer, initialized, gpc, vol, cnt,
           part, cpc, rotated, depths, faceColor, edgeColor, pin, pout >>

yvars == << player, ySampleRate, position, totalSamples, loop, volume >>
decvars == << decLoop, decOver, destroyCount, computeOnNil >>
gvars == << client, gYmPlayer, gAudioPlayer, initialized, gpc, vol, cnt >>
cvars == << part, cpc, rotated, depths, faceColor, edgeColor, pin, pout >>

-----------------------------------------------------------------------------
(* Bounds of the model *)

\* largest destination of a Read, in stereo frames
MaxFrames == 3
\* length of the mono scratch buffer y.buffer (4096 in the source, scaled down)
ScratchLen == 2
\* a Read is not started when it could carry position past this
MaxPos == 4
\* Update's volume keys are followed up to this many hundredths away from 0.5
VolSpan == 2
\* largest music duration the decoder reports, in milliseconds
MaxMs == 4
\* Updates of the Game that are followed after initialization
MaxUpdates == 2
\* rotated z coordinates of the cube's vertices range over 4 * (-ZMax .. ZMax)
ZMax == 1
\* int64 is modelled as the signed integers -HalfRange .. HalfRange-1
HalfRange == 1048576

-----------------------------------------------------------------------------
(* Inputs *)

Threads == {"audio", "control"}

\* the sample rate of the demo
sampleRate == 44100

\* sample rates a direct user calls NewYMPlayer with
SampleRates == {500}
\* music durations the decoder reports, in milliseconds
MusicTimes == (MaxMs - 2) .. MaxMs

\* raw samples the decoder writes into the scratch buffer
Samples == {-3, 301}

\* volumes passed to SetVolume, in hundredths
Volumes == {0, 50, 100}

\* destination lengths of a Read, in bytes
DestLens == 0 .. (4 * MaxFrames + 3)

IntMin == -HalfRange
IntMax == HalfRange - 1
Offsets == {IntMin, -1, 0, 1, IntMax}

SeekStart == 0
SeekCurrent == 1
SeekEnd == 2
Whences == {SeekStart, SeekCurrent, SeekEnd, 3}

-----------------------------------------------------------------------------
(* Pure helpers *)

Min(a, b) == IF a < b THEN a ELSE b

\* two's complement wrap-around of int64 arithmetic (scaled to 2*HalfRange values)
WrapInt64(x) == ((x + HalfRange) % (2 * HalfRange)) - HalfRange

\* Go's conversion of a float to an integer: truncation toward zero
Trunc(a, b) == IF a >= 0 THEN a \div b ELSE -((-a) \div b)

\* totalSamples := int64(info.MusicTimeInMs) * int64(sampleRate) / 1000
TotalSamplesOf(ms, rate) == Trunc(ms * rate, 1000)

\* `ret` when no call has returned.  n, err, p: the values returned (p: the
\* destination of a Read afterwards).  The other fields record the call:
\* whence, offset: the arguments of a Seek; pos0: y.position when it started;
\* closed0: y.player was nil when the call started; over0: the decoder had reported
\* exhaustion when the call started; processed: the Read's processed counter;
\* raw: the samples the Read took from y.buffer; vols: the values of y.volume it
\* scaled them by; exh: a Compute call of the Read reported data exhausted.
NoRet == [op |-> "none", n |-> 0, err |-> "nil", p |-> << >>,
          whence |-> 0, offset |-> 0, pos0 |-> 0, closed0 |-> FALSE, over0 |-> FALSE,
          processed |-> 0, raw |-> << >>, vols |-> {}, exh |-> FALSE]

\* the locals of a Read (lenp is len(p)), with the record fields of NoRet
NoFrame == [lenp |-> 0, samplesNeeded |-> 0, outBuffer |-> << >>, processed |-> 0,
            err |-> "nil", brk |-> FALSE, pos0 |-> 0, closed0 |-> FALSE, over0 |-> FALSE,
            raw |-> << >>, vols |-> {}, exh |-> FALSE]

-----------------------------------------------------------------------------
(* y.mutex *)

\* mutant of CanLock: the lock is not taken
CanLockAlways(t) == TRUE

\* mutex.Lock() can return for thread t
CanLock(t) == mutex = "free"

\* a thread of a direct user can make a call on the adapter
CanCall(t) ==
    /\ ~panicked
    /\ client = "api"
    /\ phase = "Loaded"
    /\ pc[t] = "idle"
    /\ CanLock(t)

\* the audio goroutine of the Game can call Read: the audio player is playing
CanPull(t) ==
    /\ ~panicked
    /\ client = "game"
    /\ t = "audio"
    /\ gAudioPlayer = "playing"
    /\ pc[t] = "idle"
    /\ CanLock(t)

\* the main goroutine of the Game can make a call on the adapter
CanControl ==
    /\ ~panicked
    /\ client = "game"
    /\ pc["control"] = "idle"
    /\ CanLock("control")

-----------------------------------------------------------------------------
(* Initial state: nothing loaded, nothing drawn *)

\* the adapter and the Game before NewYMPlayer and the first Update
InitAudio ==
    /\ phase = "Uninitialized"
    /\ player = "nil"
    /\ ySampleRate = 0
    /\ position = 0
    /\ totalSamples = 0
    /\ loop = FALSE
    /\ volume = 0
    /\ mutex = "free"
    /\ decLoop = FALSE
    /\ decOver = FALSE
    /\ destroyCount = 0
    /\ computeOnNil = FALSE
    /\ pc = [t \in Threads |-> "idle"]
    /\ rd = [t \in Threads |-> NoFrame]
    /\ ret = NoRet
    /\ panicked = FALSE
    /\ client = "none"
    /\ gYmPlayer = "nil"
    /\ gAudioPlayer = "nil"
    /\ initialized = FALSE
    /\ gpc = "new"
    /\ vol = 0
    /\ cnt = 0

\* no Draw runs
NoDraw ==
    /\ part = "none"
    /\ cpc = "off"
    /\ rotated = << >>
    /\ depths = << >>
    /\ faceColor = << >>
    /\ edgeColor = << >>
    /\ pin = << >>
    /\ pout = << >>

Init == InitAudio /\ NoDraw

-----------------------------------------------------------------------------
(* NewYMPlayer *)

\* LoadMemory accepted the data: the instance NewYMPlayer returns
NewYMPlayerLoads(rate, lp, ms) ==
    /\ phase' = "Loaded"
    /\ player' = "dec"
    /\ ySampleRate' = rate
    /\ position' = 0
    /\ totalSamples' = TotalSamplesOf(ms, rate)
    /\ loop' = lp
    /\ volume' = 50
    /\ decLoop' = lp
    /\ UNCHANGED << mutex, decOver, computeOnNil, pc, rd, panicked >>

\* LoadMemory rejected the data: the decoder is destroyed, no instance is returned
NewYMPlayerRejects ==
    /\ phase' = "LoadFailed"
    /\ destroyCount' = destroyCount + 1
    /\ ret' = [NoRet EXCEPT !.op = "NewYMPlayer", !.err = "load"]
    /\ UNCHANGED << yvars, mutex, decLoop, decOver, computeOnNil, pc, rd, panicked >>

\* a direct user creates the adapter
NewYMPlayerOK(rate, lp, ms) ==
    /\ client = "none"
    /\ client' = "api"
    /\ NewYMPlayerLoads(rate, lp, ms)
    /\ ret' = [NoRet EXCEPT !.op = "NewYMPlayer"]
    /\ UNCHANGED << destroyCount, gYmPlayer, gAudioPlayer, initialized, gpc, vol, cnt, cvars >>

NewYMPlayerFail ==
    /\ client = "none"
    /\ client' = "api"
    /\ NewYMPlayerRejects
    /\ UNCHANGED << gYmPlayer, gAudioPlayer, initialized, gpc, vol, cnt, cvars >>

-----------------------------------------------------------------------------
(* The decoder's Compute, as Read calls it (external library stsound) *)

\* what one Compute call of n samples can do: whether it reports more data, the
\* samples it leaves in y.buffer[:n], the decoder's exhausted flag afterwards, and
\* whether the call panics.  Through a nil handle the call either panics (nil
\* pointer dereference) or, if the library tolerates a nil receiver, returns
\* anything.  A non-looping decoder that has reported exhaustion keeps doing so.
ComputeResults(n) ==
    IF player = "nil"
    THEN {[more |-> FALSE, buf |-> [i \in 1 .. n |-> 0], over |-> decOver, panic |-> TRUE]}
         \cup [more : BOOLEAN, buf : [1 .. n -> Samples], over : {decOver}, panic : {FALSE}]
    ELSE IF decLoop
    THEN [more : BOOLEAN, buf : [1 .. n -> Samples], over : {FALSE}, panic : {FALSE}]
    ELSE IF decOver
    THEN [more : {FALSE}, buf : [1 .. n -> Samples], over : {TRUE}, panic : {FALSE}]
    ELSE {r \in [more : BOOLEAN, buf : [1 .. n -> Samples], over : BOOLEAN, panic : {FALSE}] :
            r.over = ~r.more}

-----------------------------------------------------------------------------
(* Read *)

\* mutant of Scale: the sample is copied without the volume
ScaleIgnoringVolume(sample, v) == sample

\* int16(float64(y.buffer[i]) * y.volume)
Scale(sample, v) == Trunc(sample * v, 100)

\* byte(sample), byte(sample>>8)
LoByte(sample) == sample % 256
HiByte(sample) == (sample \div 256) % 256

\* buf: outBuffer serialized little-endian, two bytes a sample
BytesOf(outBuffer) ==
    [i \in 1 .. 2 * Len(outBuffer) |->
        IF i % 2 = 1 THEN LoByte(outBuffer[(i + 1) \div 2]) ELSE HiByte(outBuffer[i \div 2])]

\* copy(p, buf): the destination afterwards; a byte copy leaves alone is -1
CopyTo(lenp, buf) == [i \in 1 .. lenp |-> IF i <= Len(buf) THEN buf[i] ELSE -1]

\* mutant of ReadCount: the length of the destination is returned
ReadCountOfDestination(lenp, buf) == lenp

\* n = len(buf), capped at len(p)
ReadCount(lenp, buf) == IF Len(buf) > lenp THEN lenp ELSE Len(buf)

\* mutant of ReadStops: exhaustion never ends the Read
ReadStopsNever(more) == FALSE

\* mutant of ReadStops: exhaustion ends the Read whatever y.loop is
ReadStopsIgnoringLoop(more) == ~more

\* mutant of ReadStops: a Read at or past totalSamples ends the stream as well
ReadStopsAtTotal(more) == (~more \/ position >= totalSamples) /\ ~loop

\* exhaustion ends the Read: the decoder reported no more data and y.loop is off
ReadStops(more) == ~more /\ ~loop

\* outBuffer after the zero fill from processed*2 on
ZeroFill(outBuffer, processed) ==
    [i \in 1 .. Len(outBuffer) |-> IF i > processed * 2 THEN 0 ELSE outBuffer[i]]

\* outBuffer after the chunk is scaled into both channels of its frames
CopyChunk(outBuffer, processed, chunk, chunkSize) ==
    [i \in 1 .. Len(outBuffer) |->
        LET fr == (i + 1) \div 2
        IN  IF fr > processed /\ fr <= processed + chunkSize
            THEN Scale(chunk[fr - processed], volume)
            ELSE outBuffer[i]]

\* mutex.Lock(), samplesNeeded, outBuffer, processed := 0
ReadBegin(t, lenp) ==
    /\ CanCall(t) \/ CanPull(t)
    /\ position + lenp \div 4 <= MaxPos
    /\ mutex' = t
    /\ pc' = [pc EXCEPT ![t] = "read"]
    /\ rd' = [rd EXCEPT ![t] = [NoFrame EXCEPT !.lenp = lenp,
                                               !.samplesNeeded = lenp \div 4,
                                               !.outBuffer = [i \in 1 .. 2 * (lenp \div 4) |-> 0],
                                               !.pos0 = position,
                                               !.closed0 = (player = "nil"),
                                               !.over0 = decOver]]
    /\ ret' = NoRet
    /\ UNCHANGED << phase, yvars, decvars, panicked, gvars, cvars >>

\* one iteration of the for loop
ReadChunk(t) ==
    LET f == rd[t]
        chunkSize == Min(f.samplesNeeded - f.processed, ScratchLen)
    IN  /\ ~panicked
        /\ pc[t] = "read"
        /\ ~f.brk
        /\ f.processed < f.samplesNeeded
        /\ \E r \in ComputeResults(chunkSize) :
            /\ computeOnNil' = (computeOnNil \/ player = "nil")
            /\ decOver' = r.over
            /\ IF r.panic
               THEN /\ panicked' = TRUE
                    /\ pc' = [pc EXCEPT ![t] = "panic"]
                    /\ mutex' = "free"
                    /\ rd' = [rd EXCEPT ![t] = NoFrame]
                    /\ UNCHANGED position
               ELSE IF ReadStops(r.more)
               THEN /\ rd' = [rd EXCEPT ![t].outBuffer = ZeroFill(f.outBuffer, f.processed),
                                        ![t].err = "EOF",
                                        ![t].brk = TRUE,
                                        ![t].exh = TRUE]
                    /\ UNCHANGED << position, pc, mutex, panicked >>
               ELSE /\ rd' = [rd EXCEPT ![t].outBuffer =
                                            CopyChunk(f.outBuffer, f.processed, r.buf, chunkSize),
                                        ![t].processed = f.processed + chunkSize,
                                        ![t].raw = f.raw \o r.buf,
                                        ![t].vols = f.vols \cup {volume},
                                        ![t].exh = (f.exh \/ ~r.more)]
                    /\ position' = WrapInt64(position + chunkSize)
                    /\ UNCHANGED << pc, mutex, panicked >>
        /\ UNCHANGED << phase, player, ySampleRate, totalSamples, loop, volume,
                        decLoop, destroyCount, ret, gvars, cvars >>

\* after the loop: serialize, copy, count, return; the deferred Unlock
ReadReturn(t) ==
    LET f == rd[t]
        buf == BytesOf(f.outBuffer)
    IN  /\ ~panicked
        /\ pc[t] = "read"
        /\ f.brk \/ f.processed >= f.samplesNeeded
        /\ ret' = [NoRet EXCEPT !.op = "Read",
                                !.n = ReadCount(f.lenp, buf), !.err = f.err,
                                !.p = CopyTo(f.lenp, buf),
                                !.pos0 = f.pos0,
                                !.closed0 = f.closed0, !.over0 = f.over0,
                                !.processed = f.processed, !.raw = f.raw,
                                !.vols = f.vols, !.exh = f.exh]
        /\ mutex' = "free"
        /\ pc' = [pc EXCEPT ![t] = "idle"]
        /\ rd' = [rd EXCEPT ![t] = NoFrame]
        /\ UNCHANGED << phase, yvars, decvars, panicked, gvars, cvars >>

-----------------------------------------------------------------------------
(* SetVolume, GetVolume *)

\* the body of SetVolume, under the lock
SetVolumeBody(v) ==
    /\ volume' = v
    /\ ret' = [NoRet EXCEPT !.op = "SetVolume", !.closed0 = (player = "nil")]
    /\ UNCHANGED << phase, player, ySampleRate, position, totalSamples, loop, mutex,
                    decvars, pc, rd, panicked >>

\* the body of GetVolume, under the lock
GetVolumeBody ==
    /\ ret' = [NoRet EXCEPT !.op = "GetVolume", !.n = volume, !.closed0 = (player = "nil")]
    /\ UNCHANGED << phase, yvars, mutex, decvars, pc, rd, panicked >>

SetVolume(t, v) ==
    /\ CanCall(t)
    /\ SetVolumeBody(v)
    /\ UNCHANGED << gvars, cvars >>

GetVolume(t) ==
    /\ CanCall(t)
    /\ GetVolumeBody
    /\ UNCHANGED << gvars, cvars >>

-----------------------------------------------------------------------------
(* Seek *)

ValidWhence(whence) == whence \in {SeekStart, SeekCurrent, SeekEnd}

\* the switch on whence
SeekTarget(offset, whence) ==
    CASE whence = SeekStart   -> offset
      [] whence = SeekCurrent -> WrapInt64(position + offset)
      [] whence = SeekEnd     -> WrapInt64(totalSamples + offset)
      [] OTHER                -> 0

\* mutant of SeekClamp: the upper clamp is missing
SeekClampLowOnly(newPos) == IF newPos < 0 THEN 0 ELSE newPos

\* the two clamping ifs
SeekClamp(newPos) ==
    LET lo == IF newPos < 0 THEN 0 ELSE newPos
    IN  IF lo > totalSamples THEN totalSamples ELSE lo

\* mutant of SeekPosition: an unrecognized whence falls through to the store
SeekPositionNoDefault(offset, whence) == SeekClamp(SeekTarget(offset, whence))

\* the position Seek stores
SeekPosition(offset, whence) ==
    IF ValidWhence(whence) THEN SeekClamp(SeekTarget(offset, whence)) ELSE position

Seek(t, offset, whence) ==
    /\ CanCall(t)
    /\ position' = SeekPosition(offset, whence)
    /\ ret' = [NoRet EXCEPT !.op = "Seek",
                            !.whence = whence, !.offset = offset,
                            !.pos0 = position, !.closed0 = (player = "nil"),
                            !.n = IF ValidWhence(whence) THEN position' ELSE 0,
                            !.err = IF ValidWhence(whence) THEN "nil" ELSE "whence"]
    /\ UNCHANGED << phase, player, ySampleRate, totalSamples, loop, volume, mutex,
                    decvars, pc, rd, panicked, gvars, cvars >>

-----------------------------------------------------------------------------
(* Close *)

\* mutant of CloseDestroys: no nil check
CloseDestroysAlways == TRUE

\* the decoder's Destroy is called
CloseDestroys == player # "nil"

\* the body of Close, under the lock
CloseBody ==
    /\ destroyCount' = IF CloseDestroys THEN destroyCount + 1 ELSE destroyCount
    /\ player' = "nil"
    /\ ret' = [NoRet EXCEPT !.op = "Close", !.closed0 = (player = "nil")]
    /\ UNCHANGED << phase, ySampleRate, position, totalSamples, loop, volume, mutex,
                    decLoop, decOver, computeOnNil, pc, rd, panicked >>

Close(t) ==
    /\ CanCall(t)
    /\ CloseBody
    /\ UNCHANGED << gvars, cvars >>

-----------------------------------------------------------------------------
(* Game: Init and loadMusic, run by the first Update *)

\* loadAssets fails: Update returns the error, RunGame returns it and log.Fatal
\* exits the process (the deferred Cleanup does not run)
InitAssetsFail ==
    /\ client = "none"
    /\ gpc = "new"
    /\ client' = "game"
    /\ gpc' = "exited"
    /\ UNCHANGED << phase, yvars, mutex, decvars, pc, rd, ret, panicked,
                    gYmPlayer, gAudioPlayer, initialized, vol, cnt, cvars >>

\* loadMusic: NewYMPlayer returns an error; g.ymPlayer stays nil
InitMusicRejected ==
    /\ client = "none"
    /\ gpc = "new"
    /\ client' = "game"
    /\ NewYMPlayerRejects
    /\ initialized' = TRUE
    /\ gpc' = "running"
    /\ UNCHANGED << gYmPlayer, gAudioPlayer, vol, cnt, cvars >>

\* loadMusic: NewYMPlayer succeeds, NewPlayer fails: the adapter is closed and
\* g.ymPlayer set back to nil
InitNoAudioPlayer(ms) ==
    /\ client = "none"
    /\ gpc = "new"
    /\ client' = "game"
    /\ phase' = "Loaded"
    /\ ySampleRate' = sampleRate
    /\ position' = 0
    /\ totalSamples' = TotalSamplesOf(ms, sampleRate)
    /\ loop' = TRUE
    /\ volume' = 50
    /\ decLoop' = TRUE
    /\ destroyCount' = destroyCount + 1
    /\ player' = "nil"
    /\ ret' = [NoRet EXCEPT !.op = "Close"]
    /\ initialized' = TRUE
    /\ gpc' = "running"
    /\ UNCHANGED << mutex, decOver, computeOnNil, pc, rd, panicked,
                    gYmPlayer, gAudioPlayer, vol, cnt, cvars >>

\* loadMusic: NewYMPlayer and NewPlayer succeed, the audio player plays
InitMusicPlaying(ms) ==
    /\ client = "none"
    /\ gpc = "new"
    /\ client' = "game"
    /\ NewYMPlayerLoads(sampleRate, TRUE, ms)
    /\ ret' = [NoRet EXCEPT !.op = "NewYMPlayer"]
    /\ gYmPlayer' = "y"
    /\ gAudioPlayer' = "playing"
    /\ initialized' = TRUE
    /\ gpc' = "running"
    /\ UNCHANGED << destroyCount, vol, cnt, cvars >>

-----------------------------------------------------------------------------
(* Game: Update after initialization.  At most one volume key is down *)

\* vol := g.ymPlayer.GetVolume() + 0.01 (KeyUp) or - 0.01 (KeyDown), clamped
KeyVolume(up) ==
    IF up
    THEN (IF volume + 1 > 100 THEN 100 ELSE volume + 1)
    ELSE (IF volume - 1 < 0 THEN 0 ELSE volume - 1)

\* mutant of UpdateHasPlayer: the volume keys are handled without the nil check
UpdateHasPlayerAlways == TRUE

\* if g.ymPlayer != nil
UpdateHasPlayer == gYmPlayer # "nil"

\* an Update can start: the game runs and its window is open
CanUpdate ==
    /\ ~panicked
    /\ client = "game"
    /\ gpc = "running"
    /\ cnt < 3 * MaxUpdates

\* g.cnt = (g.cnt + 3) & 0x3ff: the animation step that ends every Update
UpdateAnimation == cnt' = (cnt + 3) % 1024

\* Update that handles no volume key (none is down, or g.ymPlayer is nil)
UpdateVisual(key) ==
    /\ CanUpdate
    /\ key => ~UpdateHasPlayer
    /\ UpdateAnimation
    /\ UNCHANGED << phase, yvars, mutex, decvars, pc, rd, ret, panicked,
                    client, gYmPlayer, gAudioPlayer, initialized, gpc, vol, cvars >>

\* Update with g.ymPlayer set and a volume key down: GetVolume
UpdateGetVolume(up) ==
    /\ CanUpdate
    /\ CanControl
    /\ UpdateHasPlayer
    /\ IF up THEN volume < 50 + VolSpan ELSE volume > 50 - VolSpan
    /\ GetVolumeBody
    /\ vol' = KeyVolume(up)
    /\ gpc' = "setvol"
    /\ UNCHANGED << client, gYmPlayer, gAudioPlayer, initialized, cnt, cvars >>

\* ... SetVolume(vol), and the rest of that Update
UpdateSetVolume ==
    /\ CanControl
    /\ gpc = "setvol"
    /\ SetVolumeBody(vol)
    /\ vol' = 0
    /\ UpdateAnimation
    /\ gpc' = "running"
    /\ UNCHANGED << client, gYmPlayer, gAudioPlayer, initialized, cvars >>

-----------------------------------------------------------------------------
(* Game: Cleanup, deferred by main and run when RunGame returns *)

\* if g.audioPlayer != nil { g.audioPlayer.Close() }
CleanupAudio ==
    /\ ~panicked
    /\ client = "game"
    /\ gpc = "running"
    /\ gAudioPlayer' = IF gAudioPlayer # "nil" THEN "closed" ELSE gAudioPlayer
    /\ gpc' = "cleanup"
    /\ UNCHANGED << phase, yvars, mutex, decvars, pc, rd, ret, panicked,
                    client, gYmPlayer, initialized, vol, cnt, cvars >>

\* if g.ymPlayer != nil { g.ymPlayer.Close() }; main returns
CleanupClose ==
    /\ gpc = "cleanup"
    /\ IF gYmPlayer # "nil"
       THEN CanControl /\ CloseBody
       ELSE ~panicked /\ UNCHANGED << phase, yvars, mutex, decvars, pc, rd, ret, panicked >>
    /\ gpc' = "exited"
    /\ UNCHANGED << client, gYmPlayer, gAudioPlayer, initialized, vol, cnt, cvars >>

-----------------------------------------------------------------------------

Next ==
    \/ \E rate \in SampleRates, lp \in BOOLEAN, ms \in MusicTimes : NewYMPlayerOK(rate, lp, ms)
    \/ NewYMPlayerFail
    \/ \E t \in Threads, v \in Volumes : SetVolume(t, v)
    \/ \E t \in Threads : GetVolume(t)
    \/ \E t \in Threads, o \in Offsets, w \in Whences : Seek(t, o, w)
    \/ \E t \in Threads : Close(t)
    \/ \E t \in Threads, lenp \in DestLens : ReadBegin(t, lenp)
    \/ \E t \in Threads : ReadChunk(t)
    \/ \E t \in Threads : ReadReturn(t)
    \/ InitAssetsFail
    \/ InitMusicRejected
    \/ \E ms \in MusicTimes : InitNoAudioPlayer(ms)
    \/ \E ms \in MusicTimes : InitMusicPlaying(ms)
    \/ \E key \in BOOLEAN : UpdateVisual(key)
    \/ \E up \in BOOLEAN : UpdateGetVolume(up)
    \/ UpdateSetVolume
    \/ CleanupAudio
    \/ CleanupClose

Spec == Init /\ [][Next]_vars

-----------------------------------------------------------------------------
(* Cube3D.Draw: the order the faces are drawn in *)

\* the vertices of each face, by face index 0 .. 5 (here at 1 .. 6)
faces == << << 0, 1, 2, 3 >>, << 4, 5, 6, 7 >>, << 0, 1, 5, 4 >>,
            << 2, 3, 7, 6 >>, << 0, 3, 7, 4 >>, << 1, 2, 6, 5 >> >>

\* rotated z of the 8 vertices: multiples of 4, so that centerZ / 4 is exact
RotatedZs == [0 .. 7 -> {4 * k : k \in (-ZMax) .. ZMax}]

\* centerZ: the sum of rotated[vi][2] over the face's vertices
centerZ(face, rot) == rot[face[1]] + rot[face[2]] + rot[face[3]] + rot[face[4]]

\* depths[i] = faceDepth{i, centerZ / 4}
FaceDepths(rot) ==
    [i \in 1 .. Len(faces) |-> [index |-> i - 1, depth |-> centerZ(faces[i], rot) \div 4]]

\* mutant of SwapNeeded: the comparison is the other way round
SwapNeededReversed(a, b) == a.depth < b.depth

\* if depths[i].depth > depths[j].depth
SwapNeeded(a, b) == a.depth > b.depth

\* depths[i], depths[j] = depths[j], depths[i]
SwapAt(d, i, j) == [d EXCEPT ![i] = d[j], ![j] = d[i]]

RECURSIVE SortInner(_, _, _)
\* for j := i + 1; j < len(depths); j++ (indices from 1 here)
SortInner(d, i, j) ==
    IF j > Len(d)
    THEN d
    ELSE SortInner(IF SwapNeeded(d[i], d[j]) THEN SwapAt(d, i, j) ELSE d, i, j + 1)

RECURSIVE SortOuter(_, _)
\* for i := 0; i < len(depths)-1; i++ (indices from 1 here)
SortOuter(d, i) ==
    IF i > Len(d) - 1
    THEN d
    ELSE SortOuter(SortInner(d, i, i + 1), i + 1)

\* Draw, from the face depths to the sorted depths slice
FaceOrder ==
    /\ part = "sort"
    /\ cpc = "ready"
    /\ depths' = SortOuter(FaceDepths(rotated), 1)
    /\ cpc' = "done"
    /\ UNCHANGED << part, rotated, faceColor, edgeColor, pin, pout >>
    /\ UNCHANGED << phase, yvars, mutex, decvars, pc, rd, ret, panicked, gvars >>

-----------------------------------------------------------------------------
(* Cube3D.Draw: the outline colour *)

\* the R, G, B of the six face colours
faceColors == << << 255, 80, 160 >>, << 255, 120, 200 >>, << 200, 60, 140 >>,
                 << 255, 100, 180 >>, << 220, 80, 160 >>, << 255, 140, 200 >> >>

\* a uint8 result: the low 8 bits
Uint8(x) == x % 256

\* uint8(c * 3 / 4), c a uint8: the product and the quotient are uint8 too
EdgeChannel(c) == Uint8(Uint8(c * 3) \div 4)

\* edgeColor := color.RGBA{R * 3 / 4, G * 3 / 4, B * 3 / 4, 255}
EdgeColor ==
    /\ part = "edge"
    /\ cpc = "ready"
    /\ edgeColor' = [ch \in 1 .. 3 |-> EdgeChannel(faceColor[ch])]
    /\ cpc' = "done"
    /\ UNCHANGED << part, rotated, depths, faceColor, pin, pout >>
    /\ UNCHANGED << phase, yvars, mutex, decvars, pc, rd, ret, panicked, gvars >>

-----------------------------------------------------------------------------
(* project3D *)

perspective == 200

\* float64 values: a fraction num/den with den > 0, or an infinity, or NaN
Fin(num, den) == IF den > 0 THEN [kind |-> "fin", num |-> num, den |-> den]
                 ELSE [kind |-> "fin", num |-> -num, den |-> -den]
PosInf == [kind |-> "+Inf", num |-> 0, den |-> 0]
NegInf == [kind |-> "-Inf", num |-> 0, den |-> 0]
NaN == [kind |-> "NaN", num |-> 0, den |-> 0]

\* factor := perspective / (perspective + z); a float division by zero is no
\* panic: the quotient of a positive number and zero is +Inf
Factor(z) == IF perspective + z = 0 THEN PosInf ELSE Fin(perspective, perspective + z)

\* x * factor
TimesFactor(x, f) ==
    IF f.kind = "fin" THEN Fin(x * f.num, f.den)
    ELSE IF x = 0 THEN NaN
    ELSE IF x > 0 THEN PosInf ELSE NegInf

\* project3D(x, y, z)
Project3D ==
    /\ part = "project"
    /\ cpc = "ready"
    /\ pout' = [x |-> TimesFactor(pin[1], Factor(pin[3])),
                y |-> TimesFactor(pin[2], Factor(pin[3])),
                divByZero |-> (perspective + pin[3] = 0)]
    /\ cpc' = "done"
    /\ UNCHANGED << part, rotated, depths, faceColor, edgeColor, pin >>
    /\ UNCHANGED << phase, yvars, mutex, decvars, pc, rd, ret, panicked, gvars >>

-----------------------------------------------------------------------------
(* The drawing functions on their inputs *)

\* the x and y passed to project3D
Coords == {-2, 0, 3}
\* the z passed to project3D
ProjectZs == {-perspective - 1, -perspective, -1, 0, 50}

\* the fill colours EdgeColor is applied to: the cube's, and every channel value
FillColors == {faceColors[i] : i \in 1 .. Len(faceColors)} \cup {<< c, c, c >> : c \in 0 .. 255}

InitCube ==
    /\ InitAudio
    /\ cpc = "ready"
    /\ depths = << >>
    /\ edgeColor = << >>
    /\ pout = << >>
    /\ \/ part = "sort" /\ rotated \in RotatedZs /\ faceColor = << >> /\ pin = << >>
       \/ part = "edge" /\ faceColor \in FillColors /\ rotated = << >> /\ pin = << >>
       \/ part = "project" /\ pin \in Coords \X Coords \X ProjectZs
             /\ rotated = << >> /\ faceColor = << >>

NextCube ==
    \/ FaceOrder
    \/ EdgeColor
    \/ Project3D

SpecCube == InitCube /\ [][NextCube]_vars

-----------------------------------------------------------------------------
(* Reading what a Read returned *)

\* the 16-bit sample a Read left at sample index k (1-based) of its destination
SampleAt(p, k) ==
    LET u == p[2 * k - 1] + 256 * p[2 * k]
    IN  IF u >= 32768 THEN u - 65536 ELSE u

LeftOf(p, fr) == SampleAt(p, 2 * fr - 1)
RightOf(p, fr) == SampleAt(p, 2 * fr)

\* the stereo frames a destination of this length holds
FramesOf(p) == Len(p) \div 4

-----------------------------------------------------------------------------
(* C1 *)

\* C1: a Read that takes the lock after Close has completed returns at once with
\* end-of-stream and never calls Compute through the nil decoder handle.
C1_ReadAfterCloseIsSafe ==
    /\ ~computeOnNil
    /\ (ret.op = "Read" /\ ret.closed0 /\ FramesOf(ret.p) >= 1)
          => (ret.err = "EOF" /\ ret.processed = 0)

-----------------------------------------------------------------------------
(* C2 *)

\* C2: over any sequence or interleaving of Close calls the decoder's Destroy is
\* called at most once in total, and every Close returns no error.
C2_CloseIdempotent ==
    /\ destroyCount <= 1
    /\ ret.op = "Close" => ret.err = "nil"

\* a Close on an adapter that was already closed has returned
C2_Witness ==
    /\ ret.op = "Close"
    /\ ret.closed0
    /\ destroyCount = 1
    /\ player = "nil"

-----------------------------------------------------------------------------
(* C3 *)

\* C3: once Close has completed, the adapter stays closed, and every Seek and
\* SetVolume leaves position and volume unchanged and reports a closed resource.
C3_ClosedIsTerminalNoOp ==
    [][(phase = "Loaded" /\ player = "nil") =>
          /\ player' = "nil"
          /\ ret'.op \in {"Seek", "SetVolume"} =>
                /\ position' = position
                /\ volume' = volume
                /\ ret'.err = "closed"]_vars

-----------------------------------------------------------------------------
(* C4 *)

\* the bytes a Read returned, from frame `from` (0-based) on, are all zero
SilentFrom(r, from) == \A i \in (4 * from + 1) .. r.n : r.p[i] = 0

\* a Read of an open, non-looping adapter has returned
OpenPlainRead == ret.op = "Read" /\ ~ret.closed0 /\ ~loop

\* C4, as claimed: with looping off, a Read in which Compute reports exhaustion
\* returns zeros from the fill point on together with end-of-stream, and every
\* later Read until Close returns only silence together with end-of-stream.
C4_SilenceAndEOFOnEveryLaterRead ==
    OpenPlainRead =>
        /\ ret.exh => (ret.err = "EOF" /\ SilentFrom(ret, ret.processed))
        /\ ret.over0 => (ret.err = "EOF" /\ SilentFrom(ret, 0))

\* C4, amended: the same, for every later Read whose destination holds at least
\* one stereo frame; a later Read of fewer than 4 bytes returns 0 bytes and no error.
C4_SilenceAndEOFOnLaterFrames ==
    OpenPlainRead =>
        /\ ret.exh => (ret.err = "EOF" /\ SilentFrom(ret, ret.processed)
                          /\ ret.n = 4 * FramesOf(ret.p))
        /\ (ret.over0 /\ FramesOf(ret.p) >= 1) =>
              (ret.exh /\ ret.err = "EOF" /\ ret.processed = 0 /\ SilentFrom(ret, 0))
        /\ (ret.over0 /\ FramesOf(ret.p) = 0) => (ret.n = 0 /\ ret.err = "nil")

\* a Read of at least two frames, started after the decoder had reported
\* exhaustion to an earlier Read, has returned silence and end-of-stream
C4_Witness ==
    /\ OpenPlainRead
    /\ ret.over0
    /\ FramesOf(ret.p) >= 2
    /\ ret.err = "EOF"
    /\ ret.n = 4 * FramesOf(ret.p)
    /\ player = "dec"

-----------------------------------------------------------------------------
(* C5 *)

\* C5: with loop on, no Read returns end-of-stream, however often Compute reports
\* exhaustion, and every Read fills the whole request.
C5_LoopNeverEndsStream ==
    (ret.op = "Read" /\ loop) =>
        /\ ret.err = "nil"
        /\ ret.processed = FramesOf(ret.p)
        /\ Len(ret.raw) = FramesOf(ret.p)
        /\ ret.n = 4 * FramesOf(ret.p)

\* a looping Read in which Compute reported exhaustion has filled its two chunks,
\* with the position past totalSamples
C5_Witness ==
    /\ ret.op = "Read"
    /\ loop
    /\ ret.exh
    /\ ~ret.closed0
    /\ ret.processed > ScratchLen
    /\ position > totalSamples

-----------------------------------------------------------------------------
(* C6 *)

\* C6: a Read into 4*frameCount bytes returns 4*frameCount bytes; into a
\* destination whose length is no multiple of 4 it returns 4*floor(len/4) bytes,
\* never more than the length; it returns fewer than that only at end-of-stream
\* with looping off.
C6_ReadReturnsWholeFrames ==
    ret.op = "Read" =>
        /\ ret.n = 4 * (Len(ret.p) \div 4)
        /\ ret.n <= Len(ret.p)
        /\ Len(ret.p) % 4 = 0 => ret.n = Len(ret.p)
        /\ ret.n < 4 * (Len(ret.p) \div 4) => (ret.err = "EOF" /\ ~loop)
        /\ \A i \in 1 .. Len(ret.p) : (i <= ret.n) = (ret.p[i] # -1)

\* a Read into a destination of two frames and some odd bytes has returned
C6_Witness ==
    /\ ret.op = "Read"
    /\ Len(ret.p) % 4 # 0
    /\ ret.n >= 8
    /\ ~ret.closed0

-----------------------------------------------------------------------------
(* C7 *)

\* C7: with looping off, 0 <= position <= totalSamples in every reachable state.
C7_PositionWithinTotal ==
    (phase = "Loaded" /\ ~loop) => (0 <= position /\ position <= totalSamples)

-----------------------------------------------------------------------------
(* C8 *)

\* C8: a Seek with a valid mode computes offset, position+offset or
\* totalSamples+offset (in int64 arithmetic), clamps it to [0, totalSamples],
\* stores that as the position and returns it.
C8_SeekClampsAndStores ==
    (ret.op = "Seek" /\ ret.whence \in {SeekStart, SeekCurrent, SeekEnd}) =>
        LET target == IF ret.whence = SeekStart THEN ret.offset
                      ELSE IF ret.whence = SeekCurrent THEN WrapInt64(ret.pos0 + ret.offset)
                      ELSE WrapInt64(totalSamples + ret.offset)
            clamped == IF target < 0 THEN 0
                       ELSE IF target > totalSamples THEN totalSamples
                       ELSE target
        IN  /\ ret.err = "nil"
            /\ ret.n = clamped
            /\ position = ret.n
            /\ 0 <= ret.n /\ ret.n <= totalSamples

\* a Seek from the end with a positive offset has returned totalSamples
C8_Witness ==
    /\ ret.op = "Seek"
    /\ ret.whence = SeekEnd
    /\ ret.offset = 1
    /\ ret.n = totalSamples
    /\ ret.pos0 < totalSamples
    /\ position = totalSamples

-----------------------------------------------------------------------------
(* C9 *)

\* C9: a Seek with an unrecognized mode returns the invalid-mode error and leaves
\* position, volume, loop flag and decoder handle (the whole state) unchanged.
C9_InvalidWhenceChangesNothing ==
    [][(ret'.op = "Seek" /\ ret'.whence \notin {SeekStart, SeekCurrent, SeekEnd}) =>
          /\ ret'.err = "whence"
          /\ ret'.n = 0
          /\ UNCHANGED << position, volume, loop, player, totalSamples, ySampleRate >>
          /\ UNCHANGED << decvars, mutex, phase >>]_vars

\* a Seek with an unrecognized mode has returned its error with the position,
\* not at 0, where it was
C9_Witness ==
    /\ ret.op = "Seek"
    /\ ret.err = "whence"
    /\ ret.whence = 3
    /\ ret.pos0 >= 1
    /\ position = ret.pos0

-----------------------------------------------------------------------------
(* C10 *)

\* v (hundredths) times x, truncated toward zero
Scaled(x, v) == IF x * v >= 0 THEN (x * v) \div 100 ELSE -((-(x * v)) \div 100)

\* C10: in what a Read returns, left = right in every frame; every frame taken
\* from the decoder holds the raw sample scaled by the volume: 0 at volume 0.0,
\* the raw sample itself at volume 1.0.
C10_VolumeScalesBothChannels ==
    ret.op = "Read" =>
        /\ \A fr \in 1 .. (ret.n \div 4) : LeftOf(ret.p, fr) = RightOf(ret.p, fr)
        /\ Len(ret.raw) = ret.processed
        /\ \A fr \in 1 .. ret.processed : \A v \in ret.vols :
              /\ LeftOf(ret.p, fr) = Scaled(ret.raw[fr], v)
              /\ v = 0 => LeftOf(ret.p, fr) = 0
              /\ v = 100 => LeftOf(ret.p, fr) = ret.raw[fr]

\* a Read at volume 1.0 has returned a negative and a positive raw sample
C10_Witness ==
    /\ ret.op = "Read"
    /\ ret.vols = {100}
    /\ ret.processed >= 2
    /\ LeftOf(ret.p, 1) = -3
    /\ RightOf(ret.p, 2) = 301

-----------------------------------------------------------------------------
(* C11 *)

\* C11: when the decoder rejects the music data, NewYMPlayer destroys the decoder
\* exactly once, returns an error and no adapter; the Game then finishes Init and
\* keeps running Update with g.ymPlayer nil, never making a call on an adapter.
C11_RejectedLoadLeavesGameRunning ==
    phase = "LoadFailed" =>
        /\ destroyCount = 1
        /\ player = "nil"
        /\ ret.op = "NewYMPlayer" /\ ret.err = "load"
        /\ volume = 0 /\ position = 0
        /\ mutex = "free" /\ ~panicked
        /\ client = "game" =>
              /\ initialized
              /\ gYmPlayer = "nil" /\ gAudioPlayer = "nil"
              /\ gpc \in {"running", "cleanup", "exited"}
              /\ vol = 0

\* after a rejected load the Game has finished Init, has run MaxUpdates Updates
\* and is still running
C11_Witness ==
    /\ phase = "LoadFailed"
    /\ client = "game"
    /\ gpc = "running"
    /\ cnt = 3 * MaxUpdates
    /\ destroyCount = 1

-----------------------------------------------------------------------------
(* C12 *)

\* C12: a Read of an open adapter advances position by the number of mono samples
\* it produced, the zero-filled tail after exhaustion included: by the number of
\* frames it returned.
C12_PositionCountsZeroFilledTail ==
    (ret.op = "Read" /\ ~ret.closed0) => position = WrapInt64(ret.pos0 + ret.n \div 4)

-----------------------------------------------------------------------------
(* C13 *)

\* the lock is held exactly by the thread inside Read, and what a Read has
\* emitted so far is its raw samples scaled by one volume
OneVolumePerRead ==
    /\ \A t \in Threads : (pc[t] = "read") <=> (mutex = t)
    /\ ret.op = "Read" => Cardinality(ret.vols) <= 1
    /\ \A t \in Threads :
          /\ Cardinality(rd[t].vols) <= 1
          /\ \A v \in rd[t].vols : \A fr \in 1 .. rd[t].processed :
                /\ rd[t].outBuffer[2 * fr - 1] = Scaled(rd[t].raw[fr], v)
                /\ rd[t].outBuffer[2 * fr] = Scaled(rd[t].raw[fr], v)

\* a step taken while thread t is inside Read changes no field of the adapter,
\* except that t's own Read advances the position, and leaves the samples that
\* Read has already emitted as they are
NothingChangesUnderRead(t) ==
    (pc[t] = "read") =>
        /\ UNCHANGED << volume, player, loop, totalSamples, ySampleRate >>
        /\ position' # position => rd'[t].processed > rd[t].processed
        /\ pc'[t] = "read" =>
              \A i \in 1 .. 2 * rd[t].processed : rd'[t].outBuffer[i] = rd[t].outBuffer[i]

\* C13: the operations of one adapter exclude each other: while a Read holds the
\* lock no SetVolume (nor Seek, nor Close) takes effect, so all samples of one Read
\* are scaled by one volume and a volume change never alters samples already emitted.
C13_OperationsExcludeEachOther ==
    /\ []OneVolumePerRead
    /\ [][\A t \in Threads : NothingChangesUnderRead(t)]_vars

\* the audio goroutine is inside a Read that has emitted a chunk and has more to
\* do, while Update has computed a different volume and waits to set it
C13_Witness ==
    /\ gpc = "setvol"
    /\ vol # volume
    /\ pc["audio"] = "read"
    /\ mutex = "audio"
    /\ rd["audio"].processed >= ScratchLen
    /\ rd["audio"].processed < rd["audio"].samplesNeeded
    /\ rd["audio"].vols = {volume}

-----------------------------------------------------------------------------
(* C14 *)

\* the samples a Read must have left in its destination, given only what the
\* decoder handed it and the volume: the scaled samples, then zeros
ExpectedOut(r) ==
    [i \in 1 .. 2 * FramesOf(r.p) |->
        LET fr == (i + 1) \div 2
        IN  IF fr <= r.processed
            THEN Scaled(r.raw[fr], CHOOSE v \in r.vols : TRUE)
            ELSE 0]

\* what a Read of an open adapter returns is decided by the decoder and the
\* volume, whatever the position: it ends the stream only when the decoder has
\* reported exhaustion, and its bytes are the decoder's samples scaled
ReadIgnoresPosition ==
    (ret.op = "Read" /\ ~ret.closed0) =>
        /\ ret.err = "EOF" => (decOver /\ ~loop)
        /\ ret.err = "nil" => ret.processed = FramesOf(ret.p)
        /\ ret.p = CopyTo(Len(ret.p), BytesOf(ExpectedOut(ret)))

\* C14: Seek rewrites the position only, never the decoder's state, the volume
\* or the loop flag, and Read takes nothing from the position, so the bytes Reads
\* return are the same with and without Seek calls between them.
C14_SeekMovesOnlyPosition ==
    /\ []ReadIgnoresPosition
    /\ [][ret'.op = "Seek" =>
            /\ UNCHANGED << volume, loop, player, totalSamples, ySampleRate >>
            /\ UNCHANGED << decvars, mutex, pc, rd, phase, panicked >>]_vars

\* a Seek back to the start, after the decoder of a non-looping adapter has
\* reported exhaustion, has moved the position and left the decoder exhausted
C14_Witness ==
    /\ ret.op = "Seek"
    /\ ret.whence = SeekStart
    /\ ret.pos0 > 0
    /\ position = 0
    /\ decOver
    /\ ~loop
    /\ player = "dec"

-----------------------------------------------------------------------------
(* C15 *)

\* the face order has been computed
Ordered == part = "sort" /\ cpc = "done"

\* depths holds every face once, each with its own depth key
IsFacePermutation ==
    /\ Len(depths) = Len(faces)
    /\ \A i \in 1 .. Len(faces) : \E k \in 1 .. Len(depths) :
          depths[k] = FaceDepths(rotated)[i]

\* the depth keys do not decrease along depths
NonDecreasing == \A k \in 1 .. Len(depths) - 1 : depths[k].depth <= depths[k + 1].depth

\* faces with equal depth keys are in index order
TiesInIndexOrder ==
    \A k, l \in 1 .. Len(depths) :
        (k < l /\ depths[k].depth = depths[l].depth) => depths[k].index < depths[l].index

\* the z of the vertices of a cube that is not rotated: the back face at -h,
\* the front face at h
Unrotated(h) == [vi \in 0 .. 7 |-> IF vi <= 3 THEN -h ELSE h]

\* C15, as claimed: the faces come out as a permutation in non-decreasing depth
\* key order, and for every assignment of depth keys faces with equal keys keep
\* their index order.
C15_SortedAndOrderPreserving ==
    Ordered => (IsFacePermutation /\ NonDecreasing /\ TiesInIndexOrder)

\* C15, amended: the faces come out as a permutation in non-decreasing depth key
\* order; for the cube that is not rotated the order is back, bottom, top, left,
\* right, front (0, 2, 3, 4, 5, 1), the four tied faces in index order.  For other
\* keys faces with equal keys may change places.
C15_SortedAndFixedWhenUnrotated ==
    Ordered =>
        /\ IsFacePermutation
        /\ NonDecreasing
        /\ \A k \in 1 .. ZMax : rotated = Unrotated(4 * k) =>
              /\ [i \in 1 .. Len(depths) |-> depths[i].index] = << 0, 2, 3, 4, 5, 1 >>
              /\ TiesInIndexOrder

\* the faces of a cube that is not rotated have been ordered
C15_Witness ==
    /\ Ordered
    /\ rotated = Unrotated(4 * ZMax)
    /\ depths[1].index = 0
    /\ depths[6].index = 1
    /\ depths[2].depth = depths[5].depth

-----------------------------------------------------------------------------
(* C16 *)

\* C16: every channel of the outline colour is the fill colour's channel times
\* 0.75, rounded down, for every channel value 0 .. 255.
C16_OutlineIsThreeQuarters ==
    (part = "edge" /\ cpc = "done") =>
        \A ch \in 1 .. 3 : edgeColor[ch] = (faceColor[ch] * 3) \div 4

-----------------------------------------------------------------------------
(* C17 *)

\* C17: project3D does not divide when perspective + z is 0 but returns by a
\* guarded path (finite coordinates); for every other z it returns x and y
\* times perspective / (perspective + z).
C17_ProjectionGuardsZeroDivide ==
    (part = "project" /\ cpc = "done") =>
        IF perspective + pin[3] = 0
        THEN ~pout.divByZero /\ pout.x.kind = "fin" /\ pout.y.kind = "fin"
        ELSE /\ pout.x = Fin(pin[1] * perspective, perspective + pin[3])
             /\ pout.y = Fin(pin[2] * perspective, perspective + pin[3])

====
